---- MODULE Spec2Model ----
(***************************************************************************)
(* A model of services/v1/media/media_transcribe.py:                       *)
(*   resolve_media_path       (media source resolution)                    *)
(*   process_transcribe_media (transcription, subtitle synthesis, output)  *)
(*                                                                         *)
(* Strings that are paths are sequences of "/"-preceded segments:          *)
(*   <<>> is "", <<"">> is "/", <<"a","b">> is "/a/b", <<"a","">> is       *)
(*   "/a/", <<"","a">> is "//a".                                           *)
(* Optional values (Python's None) are <<>> for None and <<v>> for v.      *)
(* Times in seconds are exact rationals [num, den]; a timedelta is a whole *)
(* number of microseconds.                                                 *)
(***************************************************************************)
EXTENDS Integers, Sequences, FiniteSets, TLC

VARIABLES
    pc,               \* position in resolve_media_path / process_transcribe_media
    media_url,        \* the caller's reference
    fs,               \* the files and directories that exist on disk
    input_filename,   \* the resolved path
    downloaded,       \* the resolver's flag: the path is a temp download
    dl_calls,         \* how many times download_file was called
    error,            \* what raised, "none" while nothing has
    include_text, include_srt, include_segments, response_type, words_per_line,
    result,           \* what model.transcribe returned: [text, segments]
    text, srt_text, segments_json,
    seg_i,            \* the position of a for-loop over result['segments']
    all_words, word_timings, current_word,
    srt_subtitles, subtitle_index,
    text_filename, srt_filename, segments_filename,   \* locals; <<"unbound">> before assignment
    written,          \* the content of each output file written
    ret               \* the returned triple

vars == <<pc, media_url, fs, input_filename, downloaded, dl_calls, error,
          include_text, include_srt, include_segments, response_type, words_per_line,
          result, text, srt_text, segments_json, seg_i, all_words, word_timings,
          current_word, srt_subtitles, subtitle_index,
          text_filename, srt_filename, segments_filename, written, ret>>

resolveVars == <<media_url, fs, input_filename, downloaded, dl_calls>>
argVars == <<include_text, include_srt, include_segments, response_type, words_per_line>>
synthVars == <<seg_i, all_words, word_timings, current_word, srt_subtitles, subtitle_index>>
outVars == <<text_filename, srt_filename, segments_filename, written, ret>>

----------------------------------------------------------------------------
(* Bounds *)

MaxPathLen == 2       \* segments in a reference's path
MaxFiles == 2         \* files that exist on disk at the start
MaxSegs == 2          \* segments in a transcription result

----------------------------------------------------------------------------
(* Python values *)

None == <<>>
Some(v) == <<v>>
Unbound == <<"unbound">>

\* the content of the output files <job_id>.txt, .srt and .json; None: not written
NoOutput == [txt |-> None, srt |-> None, json |-> None]

RECURSIVE SeqsUpTo(_, _)
SeqsUpTo(S, n) ==
    IF n = 0 THEN {<<>>}
    ELSE LET shorter == SeqsUpTo(S, n - 1)
         IN  shorter \cup {Append(s, x) : s \in {t \in shorter : Len(t) = n - 1}, x \in S}

IsPrefix(p, q) == Len(p) <= Len(q) /\ SubSeq(q, 1, Len(p)) = p

----------------------------------------------------------------------------
(* Media references and the filesystem *)

HOSTNAME == "ncatoolkit.kingdomautomations.com"
UPLOAD_HOST == <<"srv", "media", "upload">>
UPLOAD_CONT == <<"app", "media">>
LOCAL_STORAGE_PATH == <<"tmp">>

\* str.lower() on the host names the model draws
Lower(h) == IF h = "NCAToolkit.KingdomAutomations.com" THEN HOSTNAME ELSE h

\* urllib.parse.unquote on the path segments the model draws
Unquote(seg) ==
    CASE seg = "%61" -> "a"
      [] seg = "%75pload" -> "upload"
      [] OTHER -> seg

UnquotePath(segs) == [i \in 1..Len(segs) |-> Unquote(segs[i])]

\* pathlib: the anchor of a path string. Exactly two leading slashes are kept.
PathRoot(segs) ==
    IF Len(segs) = 0 THEN ""
    ELSE IF Len(segs) >= 2 /\ segs[1] = "" /\ ~(Len(segs) >= 3 /\ segs[2] = "") THEN "//"
    ELSE "/"

\* pathlib: the components of a path string: empty and "." components are dropped.
PathParts(segs) == SelectSeq(segs, LAMBDA s : s \notin {"", "."})

\* Path(s) / PurePosixPath(s)
ToPath(segs) == [root |-> PathRoot(segs), parts |-> PathParts(segs)]

\* str(p)
PathStr(p) ==
    IF p.root = "" THEN <<>>
    ELSE IF p.root = "//" THEN (IF p.parts = <<>> THEN <<"", "">> ELSE <<"">> \o p.parts)
    ELSE IF p.parts = <<>> THEN <<"">>
    ELSE p.parts

IsAbsolute(p) == p.root # ""

\* Path.exists() / os.path.exists(): a directory exists when something lies under it
Exists(p, files) ==
    /\ p.root # ""
    /\ \/ p.parts = <<>>
       \/ \E f \in files : IsPrefix(p.parts, f)

\* urlparse(media_url): scheme, hostname (lower-cased), path
Urlparse(ref) == [scheme |-> ref.scheme, hostname |-> Lower(ref.host), path |-> ref.segs]

\* PurePosixPath(x).relative_to("/upload"): <<rel>>, or <<>> when it raises ValueError
RelativeToUpload(p) ==
    IF p.root = "/" /\ Len(p.parts) >= 1 /\ p.parts[1] = "upload"
    THEN Some(Tail(p.parts))
    ELSE None

\* prefix / rel
Join(prefix, rel) == [root |-> "/", parts |-> prefix \o rel]

\* a changed resolver: the container mount is probed before the host mount
MountPrefixesReversed == <<UPLOAD_CONT, UPLOAD_HOST>>

\* for prefix in [UPLOAD_HOST, UPLOAD_CONT]
MountPrefixes == <<UPLOAD_HOST, UPLOAD_CONT>>

\* lines 41-47: the first candidate that exists, <<>> when the path is not under
\* /upload or no candidate exists
InternalCandidate(ref, files) ==
    LET rel == RelativeToUpload(ToPath(UnquotePath(Urlparse(ref).path)))
    IN  IF rel = None THEN None
        ELSE LET hits == {i \in 1..Len(MountPrefixes) : Exists(Join(MountPrefixes[i], rel[1]), files)}
             IN  IF hits = {} THEN None
                 ELSE Some(PathStr(Join(MountPrefixes[CHOOSE i \in hits : \A j \in hits : i <= j], rel[1])))

\* line 39
IsInternalUrl(ref) ==
    /\ Urlparse(ref).scheme \in {"http", "https"}
    /\ Urlparse(ref).hostname = HOSTNAME

\* line 32: Path(media_url). A reference that starts with a scheme does not start
\* with "/", so it is a relative path.
PathOfReference(ref) ==
    IF ref.scheme = "" THEN ToPath(ref.segs)
    ELSE [root |-> "", parts |-> <<ref.scheme \o ":", ref.host>> \o PathParts(ref.segs)]

\* the path download_file writes: LOCAL_STORAGE_PATH/<random hex>_input
TempFile == LOCAL_STORAGE_PATH \o <<"rand_input">>

SegAlphabet == {"", ".", "upload", "a", "%61", "%75pload"}

UrlHeads == {
    [scheme |-> "", host |-> ""],
    [scheme |-> "http", host |-> HOSTNAME],
    [scheme |-> "https", host |-> HOSTNAME],
    [scheme |-> "https", host |-> "NCAToolkit.KingdomAutomations.com"],
    [scheme |-> "ftp", host |-> HOSTNAME],
    [scheme |-> "https", host |-> "evil.example"] }

References ==
    {[scheme |-> h.scheme, host |-> h.host, segs |-> s] :
        h \in UrlHeads, s \in SeqsUpTo(SegAlphabet, MaxPathLen)}

FileUniverse == {
    <<"a">>, <<"upload", "a">>,
    UPLOAD_HOST, UPLOAD_HOST \o <<"a">>,
    UPLOAD_CONT, UPLOAD_CONT \o <<"a">>, UPLOAD_CONT \o <<"a", "a">> }

FsStates == {F \in SUBSET FileUniverse : Cardinality(F) <= MaxFiles}

----------------------------------------------------------------------------
(* resolve_media_path *)

\* lines 32-35
ResolveLocal ==
    /\ pc = "resolve_local"
    /\ LET p == PathOfReference(media_url)
       IN  IF IsAbsolute(p) /\ Exists(p, fs)
           THEN /\ input_filename' = PathStr(p)
                /\ downloaded' = FALSE
                /\ pc' = "resolved"
           ELSE /\ pc' = "resolve_internal"
                /\ UNCHANGED <<input_filename, downloaded>>
    /\ UNCHANGED <<media_url, fs, dl_calls, error, argVars, result, text, srt_text,
                   segments_json, synthVars, outVars>>

\* a changed resolver: no try/except around relative_to, so its ValueError escapes
ResolveInternalUncaught ==
    /\ pc = "resolve_internal"
    /\ IF IsInternalUrl(media_url) /\ InternalCandidate(media_url, fs) # None
       THEN /\ input_filename' = InternalCandidate(media_url, fs)[1]
            /\ downloaded' = FALSE
            /\ pc' = "resolved"
            /\ error' = error
       ELSE IF IsInternalUrl(media_url)
               /\ RelativeToUpload(ToPath(UnquotePath(Urlparse(media_url).path))) = None
       THEN /\ pc' = "resolve_raised"
            /\ error' = "ValueError"
            /\ UNCHANGED <<input_filename, downloaded>>
       ELSE /\ pc' = "resolve_download"
            /\ error' = error
            /\ UNCHANGED <<input_filename, downloaded>>
    /\ UNCHANGED <<media_url, fs, dl_calls, argVars, result, text, srt_text,
                   segments_json, synthVars, outVars>>

\* lines 38-49
ResolveInternal ==
    /\ pc = "resolve_internal"
    /\ IF IsInternalUrl(media_url) /\ InternalCandidate(media_url, fs) # None
       THEN /\ input_filename' = InternalCandidate(media_url, fs)[1]
            /\ downloaded' = FALSE
            /\ pc' = "resolved"
       ELSE /\ pc' = "resolve_download"
            /\ UNCHANGED <<input_filename, downloaded>>
    /\ UNCHANGED <<media_url, fs, dl_calls, error, argVars, result, text, srt_text,
                   segments_json, synthVars, outVars>>

\* services.file_management.download_file: writes the file and returns its path
DownloadFileOk ==
    /\ fs' = fs \cup {TempFile}
    /\ input_filename' = TempFile
    /\ error' = error

\* services.file_management.download_file raises
DownloadFileFails ==
    /\ error' = "download"
    /\ UNCHANGED <<fs, input_filename>>

\* lines 52-54
ResolveDownload ==
    /\ pc = "resolve_download"
    /\ dl_calls' = dl_calls + 1
    /\ \/ /\ DownloadFileOk
          /\ downloaded' = TRUE
          /\ pc' = "resolved"
       \/ /\ DownloadFileFails
          /\ downloaded' = downloaded
          /\ pc' = "resolve_raised"
    /\ UNCHANGED <<media_url, argVars, result, text, srt_text,
                   segments_json, synthVars, outVars>>

----------------------------------------------------------------------------
(* Times: float seconds as exact rationals, timedelta as whole microseconds *)

RECURSIVE GCD(_, _)
GCD(a, b) == IF b = 0 THEN a ELSE GCD(b, a % b)

Abs(x) == IF x < 0 THEN -x ELSE x

Rat(n, d) ==
    LET g == GCD(Abs(n), d)
    IN  [num |-> n \div g, den |-> d \div g]

RatInt(n) == [num |-> n, den |-> 1]
RatAdd(p, q) == Rat(p.num * q.den + q.num * p.den, p.den * q.den)
RatSub(p, q) == Rat(p.num * q.den - q.num * p.den, p.den * q.den)
RatMulInt(i, q) == Rat(i * q.num, q.den)
RatDivInt(q, n) == Rat(q.num, q.den * n)
RatLeq(p, q) == p.num * q.den <= q.num * p.den

MicrosPerSecond == 1000000

\* round(n / d) to the nearest integer, ties to even (d > 0)
RoundHalfEven(n, d) ==
    LET f == n \div d
        r == n % d
    IN  IF 2 * r < d THEN f
        ELSE IF 2 * r > d THEN f + 1
        ELSE IF f % 2 = 0 THEN f ELSE f + 1

\* timedelta(seconds=q): microsecond resolution
Timedelta(q) == RoundHalfEven(q.num * MicrosPerSecond, q.den)

----------------------------------------------------------------------------
(* Text: a string is a sequence of characters *)

IsSpace(c) == c = " "

RECURSIVE LStrip(_)
LStrip(t) == IF t # <<>> /\ IsSpace(Head(t)) THEN LStrip(Tail(t)) ELSE t

RECURSIVE RStrip(_)
RStrip(t) ==
    IF t # <<>> /\ IsSpace(t[Len(t)]) THEN RStrip(SubSeq(t, 1, Len(t) - 1)) ELSE t

\* str.strip()
Strip(t) == RStrip(LStrip(t))

\* str.split(): the maximal runs of non-whitespace characters
RECURSIVE SplitFrom(_, _, _)
SplitFrom(t, cur, acc) ==
    IF t = <<>> THEN (IF cur = <<>> THEN acc ELSE Append(acc, cur))
    ELSE IF IsSpace(Head(t))
         THEN SplitFrom(Tail(t), <<>>, IF cur = <<>> THEN acc ELSE Append(acc, cur))
         ELSE SplitFrom(Tail(t), Append(cur, Head(t)), acc)

Split(t) == SplitFrom(t, <<>>, <<>>)

\* ' '.join(words)
RECURSIVE JoinWords(_)
JoinWords(ws) ==
    IF ws = <<>> THEN <<>>
    ELSE IF Len(ws) = 1 THEN ws[1]
    ELSE ws[1] \o <<" ">> \o JoinWords(Tail(ws))

Min(a, b) == IF a <= b THEN a ELSE b

\* srt.Subtitle(index, start, end, content)
Subtitle(index, start, end, content) ==
    [index |-> index, start |-> start, end |-> end, content |-> content]

\* srt.compose(subtitles): the serialized subtitle text, an external pure function
SrtCompose(subs) == [composed |-> subs]

\* str(segments_json)
StrOf(v) == [repr |-> v]

----------------------------------------------------------------------------
(* Transcription results *)

TimeSet == {0, 1}

TextSet == {
    <<>>,
    <<" ">>,
    <<"a">>,
    <<" ", "a", " ", "b", " ">>,
    <<"b", " ", " ", "a", " ", "c">> }

Segments == [start : {RatInt(t) : t \in TimeSet}, end : {RatInt(t) : t \in TimeSet}, text : TextSet]

SegmentLists == SeqsUpTo(Segments, MaxSegs)

\* the spec's timing example: {start=0, end=10, text="a b c d"}
ExampleSegments ==
    << [start |-> RatInt(0), end |-> RatInt(10),
        text |-> <<"a", " ", "b", " ", "c", " ", "d">>] >>

WplSet == {None, Some(-1), Some(0), Some(1), Some(2), Some(3)}

\* result['text']: whisper's full text is the concatenation of the segment texts
RECURSIVE FullText(_)
FullText(segs) == IF segs = <<>> THEN <<>> ELSE Head(segs).text \o FullText(Tail(segs))

----------------------------------------------------------------------------
(* process_transcribe_media: subtitle synthesis, lines 85-124 *)

\* line 89: words_per_line and words_per_line > 0
WordMode == words_per_line # None /\ words_per_line[1] > 0

\* lines 85-91, 116: enter the include_srt branch or skip it
SrtBegin ==
    /\ pc = "srt_begin"
    /\ IF include_srt
       THEN /\ srt_subtitles' = <<>>
            /\ subtitle_index' = 1
            /\ seg_i' = 1
            /\ all_words' = <<>>
            /\ word_timings' = <<>>
            /\ pc' = IF WordMode THEN "collect_words" ELSE "segment_loop"
       ELSE /\ pc' = "segments_json"
            /\ UNCHANGED <<srt_subtitles, subtitle_index, seg_i, all_words, word_timings>>
    /\ UNCHANGED <<resolveVars, error, argVars, result, text, srt_text, segments_json,
                   current_word, outVars>>

\* a changed synthesis: the word times are not offset by the segment's start
WordTimingFromZero(segment, i, n) ==
    LET duration_per_word == RatDivInt(RatSub(segment.end, segment.start), n)
        word_start == RatMulInt(i, duration_per_word)
        word_end == RatAdd(word_start, duration_per_word)
    IN  <<word_start, word_end>>

\* lines 97-102: the interpolated (word_start, word_end) of word i (0-based) of n
WordTiming(segment, i, n) ==
    LET duration_per_word == RatDivInt(RatSub(segment.end, segment.start), n)
        word_start == RatAdd(segment.start, RatMulInt(i, duration_per_word))
        word_end == RatAdd(word_start, duration_per_word)
    IN  <<word_start, word_end>>

\* lines 92-102: one iteration of the loop that flattens the segments into words
CollectWords ==
    /\ pc = "collect_words"
    /\ seg_i <= Len(result[1].segments)
    /\ LET segment == result[1].segments[seg_i]
           words == Split(Strip(segment.text))
       IN  /\ all_words' = all_words \o words
           /\ word_timings' = word_timings \o
                  [i \in 1..Len(words) |-> WordTiming(segment, i - 1, Len(words))]
    /\ seg_i' = seg_i + 1
    /\ UNCHANGED <<pc, resolveVars, error, argVars, result, text, srt_text, segments_json,
                   current_word, srt_subtitles, subtitle_index, outVars>>

\* line 103: the loop is over
CollectDone ==
    /\ pc = "collect_words"
    /\ seg_i > Len(result[1].segments)
    /\ current_word' = 0
    /\ pc' = "chunk_loop"
    /\ UNCHANGED <<resolveVars, error, argVars, result, text, srt_text, segments_json,
                   seg_i, all_words, word_timings, srt_subtitles, subtitle_index, outVars>>

\* lines 105-113: the cue of the chunk that starts at word cw (0-based)
ChunkCue(cw) ==
    LET k == words_per_line[1]
        chunk == SubSeq(all_words, cw + 1, Min(cw + k, Len(all_words)))
        chunk_start == word_timings[cw + 1][1]
        chunk_end == word_timings[Min(cw + Len(chunk) - 1, Len(word_timings) - 1) + 1][2]
    IN  Subtitle(subtitle_index, Timedelta(chunk_start), Timedelta(chunk_end), JoinWords(chunk))

\* a changed synthesis: the loop advances one word too far
ChunkStepSkips ==
    /\ pc = "chunk_loop"
    /\ current_word < Len(all_words)
    /\ srt_subtitles' = Append(srt_subtitles, ChunkCue(current_word))
    /\ subtitle_index' = subtitle_index + 1
    /\ current_word' = current_word + words_per_line[1] + 1
    /\ UNCHANGED <<pc, resolveVars, error, argVars, result, text, srt_text, segments_json,
                   seg_i, all_words, word_timings, outVars>>

\* lines 104-115: one iteration of the chunking loop
ChunkStep ==
    /\ pc = "chunk_loop"
    /\ current_word < Len(all_words)
    /\ srt_subtitles' = Append(srt_subtitles, ChunkCue(current_word))
    /\ subtitle_index' = subtitle_index + 1
    /\ current_word' = current_word + words_per_line[1]
    /\ UNCHANGED <<pc, resolveVars, error, argVars, result, text, srt_text, segments_json,
                   seg_i, all_words, word_timings, outVars>>

ChunkDone ==
    /\ pc = "chunk_loop"
    /\ current_word >= Len(all_words)
    /\ pc' = "compose"
    /\ UNCHANGED <<resolveVars, error, argVars, result, text, srt_text, segments_json,
                   synthVars, outVars>>

\* a changed synthesis: the segment's text is not stripped
SegmentCueUntrimmed(segment) ==
    Subtitle(subtitle_index, Timedelta(segment.start), Timedelta(segment.end), segment.text)

\* a changed synthesis: start and end are passed in the wrong order
SegmentCueSwapped(segment) ==
    Subtitle(subtitle_index, Timedelta(segment.end), Timedelta(segment.start),
             Strip(segment.text))

\* lines 118-121: the cue of one segment
SegmentCue(segment) ==
    Subtitle(subtitle_index, Timedelta(segment.start), Timedelta(segment.end),
             Strip(segment.text))

\* a changed synthesis: a segment without words gets no cue
SegmentStepSkipsEmpty ==
    /\ pc = "segment_loop"
    /\ seg_i <= Len(result[1].segments)
    /\ IF Split(Strip(result[1].segments[seg_i].text)) = <<>>
       THEN UNCHANGED <<srt_subtitles, subtitle_index>>
       ELSE /\ srt_subtitles' = Append(srt_subtitles, SegmentCue(result[1].segments[seg_i]))
            /\ subtitle_index' = subtitle_index + 1
    /\ seg_i' = seg_i + 1
    /\ UNCHANGED <<pc, resolveVars, error, argVars, result, text, srt_text, segments_json,
                   all_words, word_timings, current_word, outVars>>

\* lines 117-122: one iteration of the per-segment loop
SegmentStep ==
    /\ pc = "segment_loop"
    /\ seg_i <= Len(result[1].segments)
    /\ srt_subtitles' = Append(srt_subtitles, SegmentCue(result[1].segments[seg_i]))
    /\ subtitle_index' = subtitle_index + 1
    /\ seg_i' = seg_i + 1
    /\ UNCHANGED <<pc, resolveVars, error, argVars, result, text, srt_text, segments_json,
                   all_words, word_timings, current_word, outVars>>

SegmentDone ==
    /\ pc = "segment_loop"
    /\ seg_i > Len(result[1].segments)
    /\ pc' = "compose"
    /\ UNCHANGED <<resolveVars, error, argVars, result, text, srt_text, segments_json,
                   synthVars, outVars>>

\* line 124: srt.compose returns the text, or raises
Compose ==
    /\ pc = "compose"
    /\ \/ /\ srt_text' = Some(SrtCompose(srt_subtitles))
          /\ pc' = "segments_json"
          /\ error' = error
       \/ /\ error' = "compose"
          /\ pc' = "except"
          /\ srt_text' = srt_text
    /\ UNCHANGED <<resolveVars, argVars, result, text, segments_json, synthVars, outVars>>

NextSynth ==
    \/ SrtBegin
    \/ CollectWords
    \/ CollectDone
    \/ ChunkStep
    \/ ChunkDone
    \/ SegmentStep
    \/ SegmentDone
    \/ Compose

----------------------------------------------------------------------------
(* process_transcribe_media: the steps around the synthesis *)

\* line 64: whisper.load_model returns, or raises
LoadModel ==
    /\ pc = "resolved"
    /\ \/ /\ pc' = "transcribe"
          /\ error' = error
       \/ /\ error' = "load_model"
          /\ pc' = "except"
    /\ UNCHANGED <<resolveVars, argVars, result, text, srt_text, segments_json,
                   synthVars, outVars>>

\* the results model.transcribe may return in the whole-call specification
ProcessResults ==
    {[text |-> FullText(segs), segments |-> segs] : segs \in SeqsUpTo(Segments, 1)}

\* line 75: model.transcribe returns a result, or raises
Transcribe ==
    /\ pc = "transcribe"
    /\ \/ /\ \E r \in ProcessResults : result' = Some(r)
          /\ pc' = "assign_text"
          /\ error' = error
       \/ /\ error' = "transcribe"
          /\ pc' = "except"
          /\ result' = result
    /\ UNCHANGED <<resolveVars, argVars, text, srt_text, segments_json, synthVars, outVars>>

\* lines 76-83
AssignText ==
    /\ pc = "assign_text"
    /\ text' = IF include_text THEN Some(result[1].text) ELSE None
    /\ srt_text' = None
    /\ segments_json' = None
    /\ pc' = "srt_begin"
    /\ UNCHANGED <<resolveVars, error, argVars, result, synthVars, outVars>>

\* lines 126-127
AssignSegments ==
    /\ pc = "segments_json"
    /\ segments_json' = IF include_segments THEN Some(result[1].segments) ELSE segments_json
    /\ pc' = "cleanup"
    /\ UNCHANGED <<resolveVars, error, argVars, result, text, srt_text, synthVars, outVars>>

\* lines 130-132: remove the downloaded temp file
Cleanup ==
    /\ pc = "cleanup"
    /\ fs' = IF downloaded /\ Exists(ToPath(input_filename), fs)
             THEN fs \ {PathParts(input_filename)}
             ELSE fs
    /\ pc' = "respond"
    /\ UNCHANGED <<media_url, input_filename, downloaded, dl_calls, error, argVars, result,
                   text, srt_text, segments_json, synthVars, outVars>>

\* lines 136-138: the direct response, or go on to write the files
Respond ==
    /\ pc = "respond"
    /\ IF response_type = "direct"
       THEN /\ ret' = Some(<<text, srt_text, segments_json>>)
            /\ pc' = "returned"
       ELSE /\ ret' = ret
            /\ pc' = "write_text"
    /\ UNCHANGED <<resolveVars, error, argVars, result, text, srt_text, segments_json,
                   synthVars, text_filename, srt_filename, segments_filename, written>>

\* os.path.join(LOCAL_STORAGE_PATH, f"{job_id}.<ext>")
OutputName(ext) == LOCAL_STORAGE_PATH \o <<"job." \o ext>>

\* lines 139-144: the else branch assigns text_file, not text_filename
WriteText ==
    /\ pc = "write_text"
    /\ IF include_text
       THEN \/ /\ text_filename' = Some(OutputName("txt"))
               /\ written' = [written EXCEPT !.txt = Some(text[1])]
               /\ pc' = "write_srt"
               /\ error' = error
            \/ /\ error' = "write"
               /\ pc' = "except"
               /\ UNCHANGED <<text_filename, written>>
       ELSE /\ pc' = "write_srt"
            /\ UNCHANGED <<text_filename, written, error>>
    /\ UNCHANGED <<resolveVars, argVars, result, text, srt_text, segments_json,
                   synthVars, srt_filename, segments_filename, ret>>

\* lines 146-151
WriteSrt ==
    /\ pc = "write_srt"
    /\ IF include_srt
       THEN \/ /\ srt_filename' = Some(OutputName("srt"))
               /\ written' = [written EXCEPT !.srt = Some(srt_text[1])]
               /\ pc' = "write_segments"
               /\ error' = error
            \/ /\ error' = "write"
               /\ pc' = "except"
               /\ UNCHANGED <<srt_filename, written>>
       ELSE /\ srt_filename' = None
            /\ pc' = "write_segments"
            /\ UNCHANGED <<written, error>>
    /\ UNCHANGED <<resolveVars, argVars, result, text, srt_text, segments_json,
                   synthVars, text_filename, segments_filename, ret>>

\* lines 153-158
WriteSegments ==
    /\ pc = "write_segments"
    /\ IF include_segments
       THEN \/ /\ segments_filename' = Some(OutputName("json"))
               /\ written' = [written EXCEPT !.json = Some(StrOf(segments_json[1]))]
               /\ pc' = "return_files"
               /\ error' = error
            \/ /\ error' = "write"
               /\ pc' = "except"
               /\ UNCHANGED <<segments_filename, written>>
       ELSE /\ segments_filename' = None
            /\ pc' = "return_files"
            /\ UNCHANGED <<written, error>>
    /\ UNCHANGED <<resolveVars, argVars, result, text, srt_text, segments_json,
                   synthVars, text_filename, srt_filename, ret>>

\* line 160: reading a local that was never assigned raises UnboundLocalError
ReturnFiles ==
    /\ pc = "return_files"
    /\ IF text_filename = Unbound
       THEN /\ error' = "UnboundLocalError"
            /\ pc' = "except"
            /\ ret' = ret
       ELSE /\ ret' = Some(<<text_filename, srt_filename, segments_filename>>)
            /\ pc' = "returned"
            /\ error' = error
    /\ UNCHANGED <<resolveVars, argVars, result, text, srt_text, segments_json,
                   synthVars, text_filename, srt_filename, segments_filename, written>>

\* lines 162-164: log and re-raise
Except ==
    /\ pc = "except"
    /\ pc' = "raised"
    /\ UNCHANGED <<resolveVars, error, argVars, result, text, srt_text, segments_json,
                   synthVars, outVars>>

NextProcess ==
    \/ LoadModel
    \/ Transcribe
    \/ AssignText
    \/ AssignSegments
    \/ Cleanup
    \/ Respond
    \/ WriteText
    \/ WriteSrt
    \/ WriteSegments
    \/ ReturnFiles
    \/ Except

NextResolve == ResolveLocal \/ ResolveInternal \/ ResolveDownload

IdleRest ==
    /\ input_filename = <<>>
    /\ downloaded = FALSE
    /\ dl_calls = 0
    /\ error = "none"
    /\ result = None
    /\ text = None /\ srt_text = None /\ segments_json = None
    /\ seg_i = 0 /\ all_words = <<>> /\ word_timings = <<>> /\ current_word = 0
    /\ srt_subtitles = <<>> /\ subtitle_index = 0
    /\ text_filename = Unbound /\ srt_filename = Unbound /\ segments_filename = Unbound
    /\ written = NoOutput
    /\ ret = None

InitResolve ==
    /\ pc = "resolve_local"
    /\ media_url \in References
    /\ fs \in FsStates
    /\ include_text = FALSE /\ include_srt = FALSE /\ include_segments = FALSE
    /\ response_type = "direct" /\ words_per_line = None
    /\ IdleRest

SpecResolve == InitResolve /\ [][NextResolve]_vars

InitSynth ==
    /\ pc = "srt_begin"
    /\ media_url = [scheme |-> "", host |-> "", segs |-> <<"a">>]
    /\ fs = {<<"a">>}
    /\ input_filename = <<"a">>
    /\ downloaded = FALSE
    /\ dl_calls = 0
    /\ error = "none"
    /\ include_text = FALSE /\ include_srt = TRUE /\ include_segments = FALSE
    /\ response_type = "direct"
    /\ \/ /\ words_per_line \in WplSet
          /\ \E segs \in SegmentLists : result = Some([text |-> FullText(segs), segments |-> segs])
       \/ /\ words_per_line = Some(2)
          /\ result = Some([text |-> FullText(ExampleSegments), segments |-> ExampleSegments])
    /\ text = None /\ srt_text = None /\ segments_json = None
    /\ seg_i = 0 /\ all_words = <<>> /\ word_timings = <<>> /\ current_word = 0
    /\ srt_subtitles = <<>> /\ subtitle_index = 0
    /\ text_filename = Unbound /\ srt_filename = Unbound /\ segments_filename = Unbound
    /\ written = NoOutput
    /\ ret = None

SpecSynth == InitSynth /\ [][NextSynth]_vars

\* the references and disks of the whole-call specification: a local file, an
\* internal URL and a remote URL, each with and without the file on disk
ProcessReferences ==
    {r \in References : r.segs = <<"upload", "a">> /\ r.scheme \in {"", "https"}
                        /\ r.host \in {"", HOSTNAME, "evil.example"}}

ProcessFsStates == {{}, {<<"upload", "a">>}, {UPLOAD_CONT \o <<"a">>}}

Init ==
    /\ pc = "resolve_local"
    /\ media_url \in ProcessReferences
    /\ fs \in ProcessFsStates
    /\ include_text \in BOOLEAN /\ include_srt \in BOOLEAN /\ include_segments \in BOOLEAN
    /\ response_type \in {"direct", "cloud"}
    /\ words_per_line \in {None, Some(1), Some(2)}
    /\ IdleRest

Next == NextResolve \/ NextProcess \/ NextSynth

Spec == Init /\ [][Next]_vars

----------------------------------------------------------------------------
(* Claims about resolve_media_path, checked under SpecResolve *)

\* the disk as it was when resolve_media_path was called
DiskAtCall == fs \ {TempFile}

\* the reference is an absolute path that exists
RefIsExistingLocal ==
    /\ media_url.scheme = ""
    /\ Len(media_url.segs) >= 1
    /\ Exists(ToPath(media_url.segs), DiskAtCall)

\* the reference is an http(s) URL whose host is the internal hostname
RefIsInternal ==
    /\ media_url.scheme \in {"http", "https"}
    /\ Lower(media_url.host) = HOSTNAME

\* the components of the reference's decoded path
RefDecodedParts == PathParts(UnquotePath(media_url.segs))

\* the decoded path lies under /upload
RefUnderUpload ==
    /\ PathRoot(UnquotePath(media_url.segs)) = "/"
    /\ RefDecodedParts # <<>>
    /\ RefDecodedParts[1] = "upload"

HostCandidate == UPLOAD_HOST \o Tail(RefDecodedParts)
ContCandidate == UPLOAD_CONT \o Tail(RefDecodedParts)
OnDisk(parts) == \E f \in DiskAtCall : IsPrefix(parts, f)

RefHasCandidate ==
    RefIsInternal /\ RefUnderUpload /\ (OnDisk(HostCandidate) \/ OnDisk(ContCandidate))

\* what the three strategies give, the local case returning `local`
ResolutionIs(local) ==
    IF RefIsExistingLocal
    THEN input_filename = local /\ ~downloaded /\ dl_calls = 0
    ELSE IF RefHasCandidate
    THEN /\ input_filename = (IF OnDisk(HostCandidate) THEN HostCandidate ELSE ContCandidate)
         /\ ~downloaded
         /\ dl_calls = 0
    ELSE input_filename = TempFile /\ downloaded /\ dl_calls = 1

\* C1 as stated: an existing absolute path resolves to (reference, False), an
\* internal URL under /upload to (first existing mount candidate, False), anything
\* else to (download_file's path, True); download_file runs at most once and never
\* in the first two cases.
C1_AsStated ==
    /\ dl_calls <= 1
    /\ pc = "resolved" => ResolutionIs(media_url.segs)

\* C1 amended: as C1, except that an existing absolute path resolves to
\* str(Path(reference)): the reference without its empty and "." components and
\* its trailing slash, which is the reference itself when it is written that way.
C1_ResolutionOrder ==
    /\ dl_calls <= 1
    /\ pc = "resolved" => ResolutionIs(PathStr(ToPath(media_url.segs)))
    /\ pc = "resolve_raised" => ~RefIsExistingLocal /\ ~RefHasCandidate /\ dl_calls = 1

\* an existing local file named by a reference that pathlib rewrites
C1_Witness ==
    /\ pc = "resolved"
    /\ RefIsExistingLocal
    /\ input_filename # media_url.segs
    /\ ~downloaded

\* C2: a reference on the internal hostname whose path is not under /upload, or
\* whose candidates do not exist, never fails at step 2: it goes on to the
\* download, returns (download result, True), and raises only download_file's error.
C2_InternalFallsThrough ==
    (RefIsInternal /\ ~RefHasCandidate) =>
        /\ pc \in {"resolve_local", "resolve_internal", "resolve_download",
                   "resolved", "resolve_raised"}
        /\ pc = "resolved" => input_filename = TempFile /\ downloaded /\ dl_calls = 1
        /\ pc = "resolve_raised" => error = "download" /\ dl_calls = 1
        /\ pc \in {"resolve_local", "resolve_internal", "resolve_download"} =>
               error = "none" /\ dl_calls = 0

\* an internal URL outside /upload that ended in the download
C2_Witness ==
    /\ RefIsInternal
    /\ ~RefUnderUpload
    /\ pc = "resolved"
    /\ downloaded
    /\ input_filename = TempFile

----------------------------------------------------------------------------
(* Claims about the subtitle synthesis, checked under SpecSynth *)

TheSegments == result[1].segments

\* the synthesis loops are over and srt_subtitles is complete
SynthesisDone == pc \in {"compose", "segments_json", "except"}

\* the words of one segment, and of all segments in input order
WordsOf(segment) == Split(Strip(segment.text))

RECURSIVE FlatWords(_)
FlatWords(segs) ==
    IF segs = <<>> THEN <<>> ELSE WordsOf(Head(segs)) \o FlatWords(Tail(segs))

\* word i (0-based) of an n-word segment occupies
\* [start + i*(end-start)/n, start + (i+1)*(end-start)/n)
InterpolatedSpan(segment, i, n) ==
    LET span == RatSub(segment.end, segment.start)
    IN  << RatAdd(segment.start, Rat(i * span.num, span.den * n)),
           RatAdd(segment.start, Rat((i + 1) * span.num, span.den * n)) >>

RECURSIVE FlatSpans(_)
FlatSpans(segs) ==
    IF segs = <<>> THEN <<>>
    ELSE LET n == Len(WordsOf(Head(segs)))
         IN  [i \in 1..n |-> InterpolatedSpan(Head(segs), i - 1, n)] \o FlatSpans(Tail(segs))

CeilDiv(w, k) == (w + k - 1) \div k

IndicesContiguous == \A j \in 1..Len(srt_subtitles) : srt_subtitles[j].index = j

\* c is t without its leading and trailing whitespace
IsTrimOf(c, t) ==
    /\ c = <<>> \/ (~IsSpace(c[1]) /\ ~IsSpace(c[Len(c)]))
    /\ \E lead \in 0..Len(t) :
          /\ lead + Len(c) <= Len(t)
          /\ SubSeq(t, lead + 1, lead + Len(c)) = c
          /\ \A i \in 1..Len(t) : (i <= lead \/ i > lead + Len(c)) => IsSpace(t[i])

\* C3: in segment mode (words_per_line None or <= 0) the cues are the segments,
\* one for one and in order: cue i has index i and the start, end (as timedelta)
\* and trimmed text of segment i.
C3_SegmentModeMap ==
    (SynthesisDone /\ ~WordMode) =>
        /\ Len(srt_subtitles) = Len(TheSegments)
        /\ \A i \in 1..Len(srt_subtitles) :
              /\ srt_subtitles[i].index = i
              /\ srt_subtitles[i].start = Timedelta(TheSegments[i].start)
              /\ srt_subtitles[i].end = Timedelta(TheSegments[i].end)
              /\ IsTrimOf(srt_subtitles[i].content, TheSegments[i].text)

\* two segments with padded text mapped to two cues
C3_Witness ==
    /\ SynthesisDone /\ ~WordMode
    /\ Len(srt_subtitles) = 2
    /\ srt_subtitles[2].index = 2
    /\ srt_subtitles[2].content # TheSegments[2].text
    /\ srt_subtitles[1].start # srt_subtitles[2].start

\* C4: in word mode with words_per_line = k >= 1 and W words over all segments,
\* there are ceil(W/k) cues indexed 1..ceil(W/k), every cue but the last holds
\* exactly k words, and the cue texts joined by single spaces are the flattened
\* word sequence in input order.
C4_WordModeChunks ==
    (SynthesisDone /\ WordMode) =>
        LET k == words_per_line[1]
            flat == FlatWords(TheSegments)
            n == Len(srt_subtitles)
        IN  /\ n = CeilDiv(Len(flat), k)
            /\ IndicesContiguous
            /\ \A j \in 1..n :
                  LET held == Len(Split(srt_subtitles[j].content))
                  IN  IF j < n THEN held = k ELSE held >= 1 /\ held <= k
            /\ JoinWords([j \in 1..n |-> srt_subtitles[j].content]) = JoinWords(flat)

\* a chunk that spans a segment boundary, and a shorter last chunk
C4_Witness ==
    /\ SynthesisDone /\ WordMode
    /\ words_per_line[1] = 2
    /\ Len(TheSegments) = 2
    /\ Len(WordsOf(TheSegments[1])) = 1
    /\ Len(WordsOf(TheSegments[2])) = 2
    /\ Len(srt_subtitles) = 2
    /\ Len(Split(srt_subtitles[2].content)) = 1

\* C5: in word mode every cue starts at the interpolated start of its first word
\* and ends at the interpolated end of its last word (as timedelta); the segment
\* {start=0, end=10, text="a b c d"} with words_per_line=2 gives (0, 5, "a b") and
\* (5, 10, "c d").
C5_WordModeTiming ==
    (SynthesisDone /\ WordMode) =>
        LET k == words_per_line[1]
            spans == FlatSpans(TheSegments)
        IN  /\ \A j \in 1..Len(srt_subtitles) :
                  /\ (j - 1) * k + 1 <= Len(spans)
                  /\ srt_subtitles[j].start = Timedelta(spans[(j - 1) * k + 1][1])
                  /\ srt_subtitles[j].end = Timedelta(spans[Min(j * k, Len(spans))][2])
            /\ (TheSegments = ExampleSegments /\ k = 2) =>
                  srt_subtitles =
                      << Subtitle(1, 0, 5 * MicrosPerSecond, <<"a", " ", "b">>),
                         Subtitle(2, 5 * MicrosPerSecond, 10 * MicrosPerSecond, <<"c", " ", "d">>) >>

\* the spec's example has been synthesized
C5_Witness ==
    /\ SynthesisDone /\ WordMode
    /\ TheSegments = ExampleSegments
    /\ words_per_line = Some(2)
    /\ Len(srt_subtitles) = 2
    /\ srt_subtitles[1].end = 5 * MicrosPerSecond
    /\ srt_subtitles[2].start = 5 * MicrosPerSecond

ZeroWord(segment) == WordsOf(segment) = <<>>

\* the segments that have words
WordedSegments == SelectSeq(TheSegments, LAMBDA s : ~ZeroWord(s))

\* C6 as stated: in either mode a zero-word segment contributes no cue, and the
\* cues of the other segments are indexed 1, 2, 3, ...
C6_AsStated ==
    SynthesisDone =>
        /\ IndicesContiguous
        /\ \A j \in 1..Len(srt_subtitles) : srt_subtitles[j].content # <<>>
        /\ ~WordMode => Len(srt_subtitles) = Len(WordedSegments)
        /\ WordMode => Len(srt_subtitles) = CeilDiv(Len(FlatWords(WordedSegments)), words_per_line[1])

\* C6 amended: in word mode a zero-word segment contributes no cue; in segment
\* mode it contributes exactly one cue, whose text is empty; in both modes the
\* cues are indexed 1, 2, 3, ...
C6_ZeroWordSegments ==
    SynthesisDone =>
        /\ IndicesContiguous
        /\ WordMode =>
              /\ \A j \in 1..Len(srt_subtitles) : srt_subtitles[j].content # <<>>
              /\ Len(srt_subtitles) =
                     CeilDiv(Len(FlatWords(WordedSegments)), words_per_line[1])
        /\ ~WordMode =>
              /\ Len(srt_subtitles) = Len(TheSegments)
              /\ \A i \in 1..Len(srt_subtitles) :
                    ZeroWord(TheSegments[i]) <=> srt_subtitles[i].content = <<>>

\* segment mode: a zero-word first segment gave cue 1, with empty text, and the
\* next segment cue 2
C6_Witness ==
    /\ SynthesisDone /\ ~WordMode
    /\ Len(TheSegments) = 2
    /\ ZeroWord(TheSegments[1]) /\ ~ZeroWord(TheSegments[2])
    /\ Len(srt_subtitles) = 2
    /\ srt_subtitles[1].content = <<>>
    /\ srt_subtitles[2].index = 2

Malformed(segment) == ~RatLeq(segment.start, segment.end)

\* C7 as stated: a segment with end < start makes the synthesis fail instead of
\* producing cues, so every cue ever produced has start <= end.
C7_RejectsMalformed ==
    /\ \A j \in 1..Len(srt_subtitles) : srt_subtitles[j].start <= srt_subtitles[j].end
    /\ (\E i \in 1..Len(TheSegments) : Malformed(TheSegments[i])) =>
           /\ srt_subtitles = <<>>
           /\ SynthesisDone => error # "none"

OrderedByStart ==
    \A i \in 1..(Len(TheSegments) - 1) : RatLeq(TheSegments[i].start, TheSegments[i + 1].start)

WellFormed == \A i \in 1..Len(TheSegments) : ~Malformed(TheSegments[i])

NoOverlap ==
    \A i \in 1..(Len(TheSegments) - 1) : RatLeq(TheSegments[i].end, TheSegments[i + 1].start)

StartsNonDecreasing ==
    \A j \in 1..(Len(srt_subtitles) - 1) : srt_subtitles[j].start <= srt_subtitles[j + 1].start

\* C8 as stated: for segments ordered by start, each with start <= end and free
\* to overlap, the cue starts never decrease, in either mode, and the indices
\* are 1, 2, 3, ...
C8_AsStated ==
    (OrderedByStart /\ WellFormed) => (StartsNonDecreasing /\ IndicesContiguous)

\* C8 amended: for segments ordered by start, each with start <= end, the cue
\* starts never decrease and the indices are 1, 2, 3, ... in segment mode; in
\* word mode the same holds when no segment overlaps the next (end <= next start).
C8_StartsNonDecreasing ==
    (OrderedByStart /\ WellFormed /\ (WordMode => NoOverlap)) =>
        (StartsNonDecreasing /\ IndicesContiguous)

\* word mode over two abutting segments: three cues with rising starts
C8_Witness ==
    /\ SynthesisDone /\ WordMode
    /\ Len(TheSegments) = 2
    /\ OrderedByStart /\ WellFormed /\ NoOverlap
    /\ Len(srt_subtitles) >= 3
    /\ srt_subtitles[1].start < srt_subtitles[2].start
    /\ srt_subtitles[2].start < srt_subtitles[3].start

----------------------------------------------------------------------------
(* Claims about the whole call, checked under Spec *)

\* the cues of the segments, whatever the flags: segment mode, word mode
ExpectedSegmentCues(segs) ==
    [i \in 1..Len(segs) |->
        Subtitle(i, Timedelta(segs[i].start), Timedelta(segs[i].end), Strip(segs[i].text))]

ExpectedWordCues(segs, k) ==
    LET flat == FlatWords(segs)
        spans == FlatSpans(segs)
    IN  [j \in 1..CeilDiv(Len(flat), k) |->
            Subtitle(j, Timedelta(spans[(j - 1) * k + 1][1]),
                     Timedelta(spans[Min(j * k, Len(flat))][2]),
                     JoinWords(SubSeq(flat, (j - 1) * k + 1, Min(j * k, Len(flat)))))]

\* each artifact as it is when all three are requested, None when not requested
WantedText == IF include_text THEN Some(result[1].text) ELSE None
WantedSrt ==
    IF include_srt
    THEN Some(SrtCompose(IF WordMode THEN ExpectedWordCues(TheSegments, words_per_line[1])
                         ELSE ExpectedSegmentCues(TheSegments)))
    ELSE None
WantedSegments == IF include_segments THEN Some(TheSegments) ELSE None

\* C9 as stated: for every combination of the three flags and both response
\* types the call returns a triple whose unrequested artifacts are None and whose
\* requested ones have the content they have when all are requested; leaving an
\* artifact out never makes the call fail (only a collaborator's failure does).
C9_OmissionIsHarmless ==
    /\ pc = "raised" => error \in {"load_model", "transcribe", "compose", "write"}
    /\ pc = "returned" =>
          IF response_type = "direct"
          THEN ret = Some(<<WantedText, WantedSrt, WantedSegments>>)
          ELSE /\ ret = Some(<< IF include_text THEN Some(OutputName("txt")) ELSE None,
                                IF include_srt THEN Some(OutputName("srt")) ELSE None,
                                IF include_segments THEN Some(OutputName("json")) ELSE None >>)
               /\ written = [txt |-> WantedText, srt |-> WantedSrt,
                             json |-> IF include_segments THEN Some(StrOf(TheSegments)) ELSE None]

\* C10 as stated: a downloaded temp file is gone when the call ends, whether it
\* returns or raises.
C10_TempFileRemoved ==
    (pc \in {"returned", "raised"} /\ downloaded) => TempFile \notin fs

====
